---- MODULE Spec2Model ----
(***************************************************************************)
(* A model of ticatec/redis-client: the RedisClient facade over an ioredis *)
(* connection, the AbstractCachedData cache entry and the                  *)
(* CachedDataManager registry.                                             *)
(*                                                                         *)
(* JavaScript values are records of one shape, so that any two of them can *)
(* be compared:                                                            *)
(*   t    the kind: "undefined", "null", "boolean", "number", "nan",       *)
(*        "string", "date", "array", "object", "instance", "throw"         *)
(*   n    the number (booleans: 0/1, instances: the identity)              *)
(*   s    the characters of a string, one per element (a Date: its ISO     *)
(*        rendering; an instance: the name of its class)                   *)
(*   kids the members <<[k |-> name, v |-> value], ...>> of an object, or  *)
(*        the elements of an array (k empty)                               *)
(* Text (a JavaScript string, a Redis key, a stored Redis value) is a      *)
(* sequence of one-character strings.                                      *)
(***************************************************************************)
EXTENDS Integers, Sequences, FiniteSets, TLC

\* ------------------------------------------------------------------------
\* Bounds
\* ------------------------------------------------------------------------
MaxTime == 2        \* the clock runs from 0 to MaxTime seconds
MaxTtl == 1         \* expiry arguments are drawn from 0..MaxTtl
MaxList == 2        \* a list holds at most MaxList elements
MaxInits == 2       \* at most MaxInits calls of RedisClient.init
MaxRegs == 3        \* at most MaxRegs calls of CachedDataManager.register

\* ------------------------------------------------------------------------
\* JavaScript values
\* ------------------------------------------------------------------------
Val(t, n, s, kids) == [t |-> t, n |-> n, s |-> s, kids |-> kids]

Undefined == Val("undefined", 0, <<>>, <<>>)
Null == Val("null", 0, <<>>, <<>>)
Bool(b) == Val("boolean", IF b THEN 1 ELSE 0, <<>>, <<>>)
Num(n) == Val("number", n, <<>>, <<>>)
NaN == Val("nan", 0, <<>>, <<>>)
Str(s) == Val("string", 0, s, <<>>)
Date(iso) == Val("date", 0, iso, <<>>)
Elem(v) == [k |-> <<>>, v |-> v]
Prop(k, v) == [k |-> k, v |-> v]
Arr(kids) == Val("array", 0, <<>>, kids)
Obj(kids) == Val("object", 0, <<>>, kids)
Instance(class, id) == Val("instance", id, <<class>>, <<>>)
\* the outcome of a call that throws (a rejected promise)
Throw == Val("throw", 0, <<>>, <<>>)

\* the typeof operator
TypeOf(v) ==
    CASE v.t = "undefined" -> "undefined"
      [] v.t = "boolean" -> "boolean"
      [] v.t \in {"number", "nan"} -> "number"
      [] v.t = "string" -> "string"
      [] OTHER -> "object"

\* ------------------------------------------------------------------------
\* Text
\* ------------------------------------------------------------------------
Digits == <<"0", "1", "2", "3", "4", "5", "6", "7", "8", "9">>

IsDigit(c) == \E d \in 1..10 : Digits[d] = c

DigitVal(c) == (CHOOSE d \in 1..10 : Digits[d] = c) - 1

RECURSIVE NatText(_)
NatText(n) ==
    IF n < 10 THEN <<Digits[n + 1]>>
    ELSE NatText(n \div 10) \o <<Digits[(n % 10) + 1]>>

\* Number.prototype.toString for integers
NumText(n) == IF n < 0 THEN <<"-">> \o NatText(0 - n) ELSE NatText(n)

\* String(v), the conversion ioredis applies to a command argument that is
\* not a Buffer
ToArg(v) ==
    CASE v.t = "string" -> v.s
      [] v.t = "number" -> NumText(v.n)
      [] v.t = "nan" -> <<"N", "a", "N">>
      [] v.t = "boolean" -> IF v.n = 1 THEN <<"t", "r", "u", "e">>
                            ELSE <<"f", "a", "l", "s", "e">>
      [] v.t = "null" -> <<>>
      [] v.t = "undefined" -> <<>>
      [] OTHER -> <<"[", "o", "b", "j", "e", "c", "t", "]">>

\* ------------------------------------------------------------------------
\* JSON.stringify
\* ------------------------------------------------------------------------
RECURSIVE QuoteChars(_)
QuoteChars(s) ==
    IF s = <<>> THEN <<>>
    ELSE (IF Head(s) \in {"\"", "\\"} THEN <<"\\", Head(s)>> ELSE <<Head(s)>>)
         \o QuoteChars(Tail(s))

Quote(s) == <<"\"">> \o QuoteChars(s) \o <<"\"">>

RECURSIVE Stringify(_)
RECURSIVE StringifyElems(_, _)
RECURSIVE StringifyProps(_, _)

\* elements of an array: undefined becomes null
StringifyElems(kids, first) ==
    IF kids = <<>> THEN <<>>
    ELSE (IF first THEN <<>> ELSE <<",">>)
         \o (IF Head(kids).v.t = "undefined" THEN <<"n", "u", "l", "l">>
             ELSE Stringify(Head(kids).v))
         \o StringifyElems(Tail(kids), FALSE)

\* members of an object: a member whose value is undefined is left out
StringifyProps(kids, first) ==
    IF kids = <<>> THEN <<>>
    ELSE IF Head(kids).v.t = "undefined" THEN StringifyProps(Tail(kids), first)
    ELSE (IF first THEN <<>> ELSE <<",">>)
         \o Quote(Head(kids).k) \o <<":">> \o Stringify(Head(kids).v)
         \o StringifyProps(Tail(kids), FALSE)

Stringify(v) ==
    CASE v.t = "null" -> <<"n", "u", "l", "l">>
      [] v.t = "nan" -> <<"n", "u", "l", "l">>
      [] v.t = "boolean" -> IF v.n = 1 THEN <<"t", "r", "u", "e">>
                            ELSE <<"f", "a", "l", "s", "e">>
      [] v.t = "number" -> NumText(v.n)
      [] v.t = "string" -> Quote(v.s)
      [] v.t = "date" -> Quote(v.s)
      [] v.t = "array" -> <<"[">> \o StringifyElems(v.kids, TRUE) \o <<"]">>
      [] v.t = "object" -> <<"{">> \o StringifyProps(v.kids, TRUE) \o <<"}">>
      [] OTHER -> <<>>

\* ------------------------------------------------------------------------
\* JSON.parse, for texts without white space, fractions or exponents.
\* A parse step yields [ok, v, i]: whether it succeeded, the value, and the
\* index of the first character after it.
\* ------------------------------------------------------------------------
Fail == [ok |-> FALSE, v |-> Undefined, i |-> 0]
Got(v, i) == [ok |-> TRUE, v |-> v, i |-> i]

HasWord(s, i, w) ==
    /\ i + Len(w) - 1 <= Len(s)
    /\ \A j \in 1..Len(w) : s[i + j - 1] = w[j]

RECURSIVE ParseDigits(_, _, _)
ParseDigits(s, i, acc) ==
    IF i <= Len(s) /\ IsDigit(s[i])
    THEN ParseDigits(s, i + 1, acc * 10 + DigitVal(s[i]))
    ELSE Got(Num(acc), i)

\* int: "0", or a non-zero digit followed by digits
ParseNat(s, i) ==
    IF i > Len(s) \/ ~IsDigit(s[i]) THEN Fail
    ELSE IF s[i] = "0" THEN Got(Num(0), i + 1)
    ELSE ParseDigits(s, i, 0)

ParseNumber(s, i) ==
    IF s[i] = "-"
    THEN LET r == ParseNat(s, i + 1)
         IN IF r.ok THEN Got(Num(0 - r.v.n), r.i) ELSE Fail
    ELSE ParseNat(s, i)

\* the characters of a string literal whose opening quote precedes index i
RECURSIVE ParseChars(_, _, _)
ParseChars(s, i, acc) ==
    IF i > Len(s) THEN Fail
    ELSE IF s[i] = "\"" THEN Got(Str(acc), i + 1)
    ELSE IF s[i] = "\\"
         THEN IF i + 1 <= Len(s) /\ s[i + 1] \in {"\"", "\\"}
              THEN ParseChars(s, i + 2, Append(acc, s[i + 1]))
              ELSE Fail
    ELSE ParseChars(s, i + 1, Append(acc, s[i]))

RECURSIVE ParseValue(_, _)
RECURSIVE ParseElems(_, _, _)
RECURSIVE ParseProps(_, _, _)

\* the elements of an array after "[" or ","
ParseElems(s, i, acc) ==
    LET r == ParseValue(s, i)
    IN IF ~r.ok \/ r.i > Len(s) THEN Fail
       ELSE IF s[r.i] = "]" THEN Got(Arr(Append(acc, Elem(r.v))), r.i + 1)
       ELSE IF s[r.i] = "," THEN ParseElems(s, r.i + 1, Append(acc, Elem(r.v)))
       ELSE Fail

\* the members of an object after "{" or ","
ParseProps(s, i, acc) ==
    IF i > Len(s) \/ s[i] # "\"" THEN Fail
    ELSE LET k == ParseChars(s, i + 1, <<>>)
         IN IF ~k.ok \/ k.i > Len(s) \/ s[k.i] # ":" THEN Fail
            ELSE LET r == ParseValue(s, k.i + 1)
                 IN IF ~r.ok \/ r.i > Len(s) THEN Fail
                    ELSE IF s[r.i] = "}"
                         THEN Got(Obj(Append(acc, Prop(k.v.s, r.v))), r.i + 1)
                    ELSE IF s[r.i] = ","
                         THEN ParseProps(s, r.i + 1, Append(acc, Prop(k.v.s, r.v)))
                    ELSE Fail

ParseValue(s, i) ==
    IF i > Len(s) THEN Fail
    ELSE CASE s[i] = "n" ->
                IF HasWord(s, i, <<"n", "u", "l", "l">>) THEN Got(Null, i + 4) ELSE Fail
           [] s[i] = "t" ->
                IF HasWord(s, i, <<"t", "r", "u", "e">>) THEN Got(Bool(TRUE), i + 4) ELSE Fail
           [] s[i] = "f" ->
                IF HasWord(s, i, <<"f", "a", "l", "s", "e">>) THEN Got(Bool(FALSE), i + 5) ELSE Fail
           [] s[i] = "\"" -> ParseChars(s, i + 1, <<>>)
           [] s[i] = "[" ->
                IF i + 1 <= Len(s) /\ s[i + 1] = "]" THEN Got(Arr(<<>>), i + 2)
                ELSE ParseElems(s, i + 1, <<>>)
           [] s[i] = "{" ->
                IF i + 1 <= Len(s) /\ s[i + 1] = "}" THEN Got(Obj(<<>>), i + 2)
                ELSE ParseProps(s, i + 1, <<>>)
           [] s[i] = "-" \/ IsDigit(s[i]) -> ParseNumber(s, i)
           [] OTHER -> Fail

\* JSON.parse(text): ok is FALSE where JSON.parse throws a SyntaxError
JSONParse(s) ==
    LET r == ParseValue(s, 1)
    IN IF r.ok /\ r.i = Len(s) + 1 THEN r ELSE Fail

\* ------------------------------------------------------------------------
\* Inputs
\* ------------------------------------------------------------------------
K == <<"k">>

\* the key function of the README's UserCache: key => `user:${key.id}`
Member(o, name) ==
    IF \E j \in 1..Len(o.kids) : o.kids[j].k = name
    THEN o.kids[CHOOSE j \in 1..Len(o.kids) : o.kids[j].k = name].v
    ELSE Undefined

getKey(key) == <<"u", "s", "e", "r", ":">> \o ToArg(Member(key, <<"i", "d">>))

User(id, name) == Obj(<<Prop(<<"i", "d">>, Num(id)), Prop(<<"n", "a", "m", "e">>, Str(name))>>)
DatedUser(id, name, iso) ==
    Obj(<<Prop(<<"i", "d">>, Num(id)), Prop(<<"n", "a", "m", "e">>, Str(name)),
          Prop(<<"c", "r", "e", "a", "t", "e", "d", "A", "t">>, Date(iso))>>)
PartialUser(id) == Obj(<<Prop(<<"i", "d">>, Num(id))>>)

Ids == {1, 2}
Entities == {User(1, <<"A">>), User(2, <<"B">>), DatedUser(1, <<"A">>, <<"2026-01-01T00:00:00.000Z">>)}
PartialKeys == {PartialUser(id) : id \in Ids}

FacadeKeys == {K}
Keys == FacadeKeys \cup {getKey(p) : p \in PartialKeys}

\* the values handed to set
SetValues ==
    { Str(<<"a">>), Num(1), Bool(TRUE),
      Obj(<<Prop(<<"n">>, Str(<<"a">>))>>), Arr(<<Elem(NaN)>>) }
\* the values handed to rpush
PushValues == { Str(<<"a">>), Obj(<<Prop(<<"n">>, Num(1))>>) }
\* the (start, end) pairs handed to lrange and lrangeObject
Ranges == { <<0, -1>>, <<1, -1>> }
\* the data objects handed to hset: {a: 1, b: 2} and {a: 9}
HashMaps ==
    { Obj(<<Prop(<<"a">>, Num(1)), Prop(<<"b">>, Num(2))>>),
      Obj(<<Prop(<<"a">>, Num(9))>>) }
\* the field names handed to hget and hsetnx, and the values to hsetnx
Fields == { <<"a">>, <<"b">>, <<"c">> }
FieldValues == { Num(9) }
\* the member arrays handed to sadd, and the values asked after
MemberArrays ==
    { Arr(<<Elem(Str(<<"x">>)), Elem(Str(<<"y">>))>>),
      Arr(<<Elem(Str(<<"x">>)), Elem(Str(<<"x">>))>>),
      Arr(<<Elem(Num(1)), Elem(Str(<<"1">>))>>), Arr(<<>>) }
Probes == { Str(<<"x">>), Str(<<"z">>), Num(1) }
\* the values, data objects and member arrays the writes are made with
\* where commands fail and the process ends
FaultValues == { Str(<<"a">>) }
FaultMaps == { Obj(<<Prop(<<"a">>, Num(1))>>) }
FaultMembers == { Arr(<<Elem(Str(<<"x">>))>>) }
\* the expiry arguments of hset, sadd and rpush where those at or below zero
\* count, and the ones hset takes for no number: null, and none at all
Ttls == -1..MaxTtl
NoTtls == { Null, Undefined }
\* the configurations handed to init: none (the mock), or connection options
Confs == { Null, Obj(<<Prop(<<"p", "o", "r", "t">>, Num(6379))>>) }
Callers == {"A", "B"}
CacheIds == {1, 2}
\* the cache entry the cache specification works with
Caches == {1}
Kinds == {"UserCache", "SessionCache"}

\* JSON-representable: built from null, booleans, finite numbers, strings,
\* arrays and objects that carry no undefined member
RECURSIVE IsJson(_)
IsJson(v) ==
    CASE v.t \in {"null", "boolean", "number", "string"} -> TRUE
      [] v.t \in {"array", "object"} -> \A j \in 1..Len(v.kids) : IsJson(v.kids[j].v)
      [] OTHER -> FALSE

\* ------------------------------------------------------------------------
\* State
\* ------------------------------------------------------------------------
VARIABLES
    instance,     \* RedisClient.instance
    constructed,  \* history: how many times the RedisClient constructor ran
    initCalls,    \* history: the configurations of the init calls, in order
    store,        \* the keys of the connection _client: per key the kind of
                  \* value, the text, list, hash fields or set members held,
                  \* and the time it expires at (0: never)
    now,          \* the store's clock, in seconds
    pc,           \* per caller: idle, or the command its call has yet to issue
    hist,         \* history: per key, the last facade call that wrote it
    cached,       \* the AbstractCachedData objects: redisClient and ttl
    manager,      \* CachedDataManager.instance exists
    map,          \* CachedDataManager.map
    regLog,       \* history: the register calls, in order
    last          \* the call made by the latest step, and what it returned

singletonVars == <<instance, constructed, initCalls>>
storeVars == <<store, now, pc, hist>>
regVars == <<manager, map, regLog>>
vars == <<instance, constructed, initCalls, store, now, pc, hist, cached,
          manager, map, regLog, last>>

NoEntry == [kind |-> "none", str |-> <<>>, list |-> <<>>, hash |-> <<>>,
            members |-> {}, exp |-> 0]
Idle == [op |-> "idle", key |-> <<>>, sec |-> 0, val |-> Undefined]
NoHist == [op |-> "none", prev |-> "none", by |-> "", val |-> Undefined,
           at |-> 0, sec |-> 0, existed |-> FALSE]
Call(op, key, a, b, ret) == [op |-> op, key |-> key, a |-> a, b |-> b, ret |-> ret]

Init ==
    /\ instance = Undefined
    /\ constructed = 0
    /\ initCalls = <<>>
    /\ store = [k \in Keys |-> NoEntry]
    /\ now = 0
    /\ pc = [c \in Callers |-> Idle]
    /\ hist = [k \in Keys |-> NoHist]
    /\ cached = [e \in CacheIds |-> [made |-> FALSE, redisClient |-> Undefined, ttl |-> 0]]
    /\ manager = FALSE
    /\ map = [ctor \in Kinds |-> Undefined]
    /\ regLog = <<>>
    /\ last = Call("none", <<>>, 0, 0, Undefined)

\* ------------------------------------------------------------------------
\* The store behind _client (ioredis, or ioredis-mock): the commands the
\* facade issues.  A command on a key of the wrong kind fails (WRONGTYPE) and
\* changes nothing.
\* ------------------------------------------------------------------------
client_set(st, key, text, exp) ==
    [st EXCEPT ![key] = [NoEntry EXCEPT !.kind = "string", !.str = text, !.exp = exp]]

client_get(st, key) ==
    CASE st[key].kind = "none" -> Null
      [] st[key].kind = "string" -> Str(st[key].str)
      [] OTHER -> Throw

client_del(st, key) == [st EXCEPT ![key] = NoEntry]

\* EXPIRE: nothing on an absent key; a time that is not in the future
\* deletes the key
client_expire(st, key, seconds, t) ==
    IF st[key].kind = "none" THEN st
    ELSE IF seconds <= 0 THEN [st EXCEPT ![key] = NoEntry]
    ELSE [st EXCEPT ![key].exp = t + seconds]

client_rpush_ok(st, key) == st[key].kind \in {"none", "list"}

client_rpush(st, key, text) ==
    IF st[key].kind = "none"
    THEN [st EXCEPT ![key] = [NoEntry EXCEPT !.kind = "list", !.list = <<text>>]]
    ELSE [st EXCEPT ![key].list = Append(@, text)]

\* LRANGE: a negative index counts from the tail; the range is clipped to
\* the list
client_lrange(st, key, start, end) ==
    IF st[key].kind = "string" THEN Throw
    ELSE LET l == st[key].list
             n == Len(l)
             s0 == IF start < 0 THEN n + start ELSE start
             e0 == IF end < 0 THEN n + end ELSE end
             s1 == IF s0 < 0 THEN 0 ELSE s0
             e1 == IF e0 >= n THEN n - 1 ELSE e0
         IN Arr([j \in 1..(IF e1 >= s1 THEN e1 - s1 + 1 ELSE 0) |-> Elem(Str(l[s1 + j]))])

\* a hash is held as its fields <<[k |-> name, v |-> text], ...>>
HasField(h, name) == \E j \in 1..Len(h) : h[j].k = name

FieldOf(h, name) == h[CHOOSE j \in 1..Len(h) : h[j].k = name].v

PutField(h, name, text) ==
    IF HasField(h, name)
    THEN [j \in 1..Len(h) |-> IF h[j].k = name THEN Prop(name, text) ELSE h[j]]
    ELSE Append(h, Prop(name, text))

RECURSIVE PutFields(_, _)
PutFields(h, fields) ==
    IF fields = <<>> THEN h
    ELSE PutFields(PutField(h, Head(fields).k, Head(fields).v), Tail(fields))

\* HSET with no field is an error, as on a key that holds no hash
client_hset_ok(st, key, fields) == st[key].kind \in {"none", "hash"} /\ fields # <<>>

client_hset(st, key, fields) ==
    IF st[key].kind = "none"
    THEN [st EXCEPT ![key] = [NoEntry EXCEPT !.kind = "hash", !.hash = PutFields(<<>>, fields)]]
    ELSE [st EXCEPT ![key].hash = PutFields(@, fields)]

client_hget(st, key, name) ==
    CASE st[key].kind = "none" -> Null
      [] st[key].kind = "hash" ->
            IF HasField(st[key].hash, name) THEN Str(FieldOf(st[key].hash, name)) ELSE Null
      [] OTHER -> Throw

client_hgetall(st, key) ==
    CASE st[key].kind \in {"none", "hash"} ->
            Obj([j \in 1..Len(st[key].hash) |->
                   Prop(st[key].hash[j].k, Str(st[key].hash[j].v))])
      [] OTHER -> Throw

client_hsetnx_ok(st, key) == st[key].kind \in {"none", "hash"}

\* HSETNX: the field is written only when the hash does not have it
client_hsetnx(st, key, name, text) ==
    IF HasField(st[key].hash, name) THEN st
    ELSE client_hset(st, key, <<Prop(name, text)>>)

client_llen(st, key) ==
    IF st[key].kind \in {"none", "list"} THEN Num(Len(st[key].list)) ELSE Throw

\* LPOP: the reply is the head of the list, or nil for an absent key
client_lpop_reply(st, key) ==
    CASE st[key].kind = "none" -> Null
      [] st[key].kind = "list" -> Str(Head(st[key].list))
      [] OTHER -> Throw

\* LPOP: the head is removed, and with its last element the key is gone
client_lpop(st, key) ==
    IF st[key].kind # "list" THEN st
    ELSE IF Len(st[key].list) = 1 THEN [st EXCEPT ![key] = NoEntry]
    ELSE [st EXCEPT ![key].list = Tail(@)]

\* SADD with no member is an error, as on a key that holds no set
client_sadd_ok(st, key, texts) == st[key].kind \in {"none", "set"} /\ texts # {}

client_sadd(st, key, texts) ==
    IF st[key].kind = "none"
    THEN [st EXCEPT ![key] = [NoEntry EXCEPT !.kind = "set", !.members = texts]]
    ELSE [st EXCEPT ![key].members = @ \cup texts]

client_scard(st, key) ==
    IF st[key].kind \in {"none", "set"} THEN Num(Cardinality(st[key].members)) ELSE Throw

client_sismember(st, key, text) ==
    IF st[key].kind \in {"none", "set"}
    THEN Num(IF text \in st[key].members THEN 1 ELSE 0)
    ELSE Throw

\* the passing of one second: the keys whose time has come are gone
Expired(st, t) == [k \in Keys |-> IF st[k].exp # 0 /\ st[k].exp <= t THEN NoEntry ELSE st[k]]

Tick ==
    /\ now < MaxTime
    /\ now' = now + 1
    /\ store' = Expired(store, now + 1)
    /\ last' = Call("tick", <<>>, 0, 0, Undefined)
    /\ UNCHANGED <<singletonVars, pc, hist, cached, regVars>>

Touch(key, op, by, val, sec) ==
    [hist EXCEPT ![key] = [op |-> op, prev |-> hist[key].op, by |-> by, val |-> val,
                           at |-> now, sec |-> sec, existed |-> store[key].kind # "none"]]

\* ------------------------------------------------------------------------
\* RedisClient: the singleton
\* ------------------------------------------------------------------------
\* new RedisClient(conf): a connection to the server, or the mock
RedisClient(conf, id) ==
    IF conf.t \notin {"null", "undefined"}
    THEN Instance("ioredis", id)
    ELSE Instance("ioredis-mock", id)

\* init without the test for an existing instance
init_Unguarded(conf) ==
    /\ Len(initCalls) < MaxInits
    /\ initCalls' = Append(initCalls, conf)
    /\ instance' = RedisClient(conf, constructed + 1)
    /\ constructed' = constructed + 1
    /\ last' = Call("init", <<>>, 0, 0, Undefined)
    /\ UNCHANGED <<storeVars, cached, regVars>>

init(conf) ==
    /\ Len(initCalls) < MaxInits
    /\ initCalls' = Append(initCalls, conf)
    /\ IF instance.t \in {"null", "undefined"}
       THEN /\ instance' = RedisClient(conf, constructed + 1)
            /\ constructed' = constructed + 1
       ELSE UNCHANGED <<instance, constructed>>
    /\ last' = Call("init", <<>>, 0, 0, Undefined)
    /\ UNCHANGED <<storeVars, cached, regVars>>

getInstance ==
    /\ last' = Call("getInstance", <<>>, 0, 0, instance)
    /\ UNCHANGED <<singletonVars, storeVars, cached, regVars>>

\* ------------------------------------------------------------------------
\* RedisClient: strings
\* ------------------------------------------------------------------------
\* a caller that is not in the middle of a call
AnyIdle == \E c \in Callers : pc[c] = Idle

\* set without the JSON branch
SetText_NoJson(value) == ToArg(value)

\* set with JSON for every value
SetText_AlwaysJson(value) == Stringify(value)

\* the text set writes: JSON for a value whose typeof is "object", and for
\* any other value the text the connection makes of the argument
SetText(value) ==
    IF TypeOf(value) = "object" THEN Stringify(value) ELSE ToArg(value)

\* the expiry set asks for: none, or EX seconds
SetExpiry(seconds) == IF seconds = 0 THEN 0 ELSE now + seconds

\* set that writes the value alone and leaves the expiry to a later command
RedisClient_set_ThenExpire(key, value, seconds, by) ==
    /\ store' = client_set(store, key, SetText(value), 0)
    /\ hist' = Touch(key, "set", by, value, seconds)

RedisClient_set(key, value, seconds, by) ==
    /\ store' = client_set(store, key, SetText(value), SetExpiry(seconds))
    /\ hist' = Touch(key, "set", by, value, seconds)

set(key, value, seconds) ==
    /\ instance # Undefined
    /\ AnyIdle
    /\ RedisClient_set(key, value, seconds, "")
    /\ last' = Call("set", key, seconds, 0, Undefined)
    /\ UNCHANGED <<singletonVars, now, pc, cached, regVars>>

RedisClient_get(key) == client_get(store, key)

get(key) ==
    /\ instance # Undefined
    /\ AnyIdle
    /\ last' = Call("get", key, 0, 0, RedisClient_get(key))
    /\ UNCHANGED <<singletonVars, storeVars, cached, regVars>>

\* getObject without the catch
RedisClient_getObject_Rethrow(key) ==
    LET text == RedisClient_get(key)
    IN IF text = Throw THEN Throw
       ELSE IF text # Null /\ TypeOf(text) = "string"
            THEN IF JSONParse(text.s).ok THEN JSONParse(text.s).v ELSE Throw
       ELSE Null

\* what getObject makes of the outcome of get
RedisClient_getObject(key) ==
    LET text == RedisClient_get(key)
    IN IF text = Throw THEN Throw
       ELSE IF text # Null /\ TypeOf(text) = "string"
            THEN IF JSONParse(text.s).ok THEN JSONParse(text.s).v ELSE Null
       ELSE Null

getObject(key) ==
    /\ instance # Undefined
    /\ AnyIdle
    /\ last' = Call("getObject", key, 0, 0, RedisClient_getObject(key))
    /\ UNCHANGED <<singletonVars, storeVars, cached, regVars>>

\* del that issues no command
RedisClient_del_Unsent(key, by) ==
    /\ store' = store
    /\ hist' = Touch(key, "del", by, Undefined, 0)

RedisClient_del(key, by) ==
    /\ store' = client_del(store, key)
    /\ hist' = Touch(key, "del", by, Undefined, 0)

del(key) ==
    /\ instance # Undefined
    /\ AnyIdle
    /\ RedisClient_del(key, "")
    /\ last' = Call("del", key, 0, 0, Undefined)
    /\ UNCHANGED <<singletonVars, now, pc, cached, regVars>>

\* expiry that hands EXPIRE a count of milliseconds: the key is given a
\* thousand times the life asked for
RedisClient_expiry_Scaled(key, seconds, by) ==
    /\ store' = client_expire(store, key, seconds * 1000, now)
    /\ hist' = Touch(key, "expiry", by, Undefined, seconds)

RedisClient_expiry(key, seconds, by) ==
    /\ store' = client_expire(store, key, seconds, now)
    /\ hist' = Touch(key, "expiry", by, Undefined, seconds)

expiry(key, seconds) ==
    /\ instance # Undefined
    /\ AnyIdle
    /\ RedisClient_expiry(key, seconds, "")
    /\ last' = Call("expiry", key, seconds, 0, Undefined)
    /\ UNCHANGED <<singletonVars, now, pc, cached, regVars>>

\* ------------------------------------------------------------------------
\* RedisClient: lists
\* ------------------------------------------------------------------------
\* the text rpush appends
PushText(data) ==
    IF TypeOf(data) = "object" THEN Stringify(data) ELSE ToArg(data)

\* rpush up to its first await: the RPUSH command.  With seconds > 0 the
\* caller goes on to expiry once the command has returned.
rpush(c, key, data, seconds) ==
    /\ instance # Undefined
    /\ pc[c] = Idle
    /\ Len(store[key].list) < MaxList
    /\ IF client_rpush_ok(store, key)
       THEN /\ store' = client_rpush(store, key, PushText(data))
            /\ hist' = Touch(key, "rpush", "", Undefined, seconds)
            /\ pc' = [pc EXCEPT ![c] = IF seconds > 0
                                       THEN [Idle EXCEPT !.op = "expire", !.key = key,
                                                         !.sec = seconds]
                                       ELSE Idle]
            /\ last' = Call("rpush", key, seconds, 0, Undefined)
       ELSE /\ last' = Call("rpush", key, seconds, 0, Throw)
            /\ UNCHANGED <<store, hist, pc>>
    /\ UNCHANGED <<singletonVars, now, cached, regVars>>

\* the rest of rpush, with an expire that is issued again and again
rpushExpiry_Again(c) ==
    /\ pc[c].op = "expire"
    /\ RedisClient_expiry(pc[c].key, pc[c].sec, "rpush")
    /\ pc' = pc
    /\ last' = Call("rpush.expiry", pc[c].key, pc[c].sec, 0, Undefined)
    /\ UNCHANGED <<singletonVars, now, cached, regVars>>

\* the rest of rpush: await this.expiry(key, seconds)
rpushExpiry(c) ==
    /\ pc[c].op = "expire"
    /\ RedisClient_expiry(pc[c].key, pc[c].sec, "rpush")
    /\ pc' = [pc EXCEPT ![c] = Idle]
    /\ last' = Call("rpush.expiry", pc[c].key, pc[c].sec, 0, Undefined)
    /\ UNCHANGED <<singletonVars, now, cached, regVars>>

RedisClient_lrange(key, start, end) == client_lrange(store, key, start, end)

lrange(key, start, end) ==
    /\ instance # Undefined
    /\ AnyIdle
    /\ last' = Call("lrange", key, start, end, RedisClient_lrange(key, start, end))
    /\ UNCHANGED <<singletonVars, storeVars, cached, regVars>>

\* the loop with a catch that keeps the raw item
RECURSIVE lrangeObjectList_KeepRaw(_)
lrangeObjectList_KeepRaw(arr) ==
    IF arr = <<>> THEN <<>>
    ELSE LET item == Head(arr).v
         IN (IF TypeOf(item) = "string" /\ JSONParse(item.s).ok
             THEN <<Elem(JSONParse(item.s).v)>>
             ELSE <<Elem(item)>>)
            \o lrangeObjectList_KeepRaw(Tail(arr))

\* the loop of lrangeObject over the fetched items
RECURSIVE lrangeObjectList(_)
lrangeObjectList(arr) ==
    IF arr = <<>> THEN <<>>
    ELSE LET item == Head(arr).v
         IN (IF TypeOf(item) = "string"
             THEN IF JSONParse(item.s).ok THEN <<Elem(JSONParse(item.s).v)>>
                  ELSE <<>>
             ELSE <<Elem(item)>>)
            \o lrangeObjectList(Tail(arr))

RedisClient_lrangeObject(key, start, end) ==
    LET arr == RedisClient_lrange(key, start, end)
    IN IF arr = Throw THEN Throw ELSE Arr(lrangeObjectList(arr.kids))

lrangeObject(key, start, end) ==
    /\ instance # Undefined
    /\ AnyIdle
    /\ last' = Call("lrangeObject", key, start, end, RedisClient_lrangeObject(key, start, end))
    /\ UNCHANGED <<singletonVars, storeVars, cached, regVars>>

\* ------------------------------------------------------------------------
\* RedisClient: hashes
\* ------------------------------------------------------------------------
\* the arguments HSET gets from a data object: each property's name and the
\* text the connection makes of its value
HashArgs(data) ==
    [j \in 1..Len(data.kids) |-> Prop(data.kids[j].k, ToArg(data.kids[j].v))]

\* hset that goes on to the expiry whether the store took the HSET or not
hset_ExpireRegardless(c, key, data, seconds) ==
    /\ instance # Undefined
    /\ pc[c] = Idle
    /\ IF client_hset_ok(store, key, HashArgs(data))
       THEN /\ store' = client_hset(store, key, HashArgs(data))
            /\ hist' = Touch(key, "hset", "", data, seconds)
            /\ last' = Call("hset", key, seconds, 0, Undefined)
       ELSE /\ last' = Call("hset", key, seconds, 0, Throw)
            /\ UNCHANGED <<store, hist>>
    /\ pc' = [pc EXCEPT ![c] = IF seconds > 0
                               THEN [Idle EXCEPT !.op = "hset.expire", !.key = key,
                                                 !.sec = seconds]
                               ELSE Idle]
    /\ UNCHANGED <<singletonVars, now, cached, regVars>>

\* hset up to its first await: the HSET command.  With seconds > 0 the
\* caller goes on to expiry once the command has returned.
hset(c, key, data, seconds) ==
    /\ instance # Undefined
    /\ pc[c] = Idle
    /\ IF client_hset_ok(store, key, HashArgs(data))
       THEN /\ store' = client_hset(store, key, HashArgs(data))
            /\ hist' = Touch(key, "hset", "", data, seconds)
            /\ pc' = [pc EXCEPT ![c] = IF seconds > 0
                                       THEN [Idle EXCEPT !.op = "hset.expire", !.key = key,
                                                         !.sec = seconds]
                                       ELSE Idle]
            /\ last' = Call("hset", key, seconds, 0, Undefined)
       ELSE /\ last' = Call("hset", key, seconds, 0, Throw)
            /\ UNCHANGED <<store, hist, pc>>
    /\ UNCHANGED <<singletonVars, now, cached, regVars>>

\* seconds != null && seconds > 0, of a seconds that may be no number
HasTtl(seconds) == seconds.t \notin {"null", "undefined"} /\ seconds.n > 0

\* hset called with null for seconds, or without seconds
hsetOptional(c, key, data, seconds) ==
    /\ instance # Undefined
    /\ pc[c] = Idle
    /\ IF client_hset_ok(store, key, HashArgs(data))
       THEN /\ store' = client_hset(store, key, HashArgs(data))
            /\ hist' = Touch(key, "hset", "", data, 0)
            /\ pc' = [pc EXCEPT ![c] = IF HasTtl(seconds)
                                       THEN [Idle EXCEPT !.op = "hset.expire", !.key = key,
                                                         !.sec = seconds.n]
                                       ELSE Idle]
            /\ last' = Call("hset", key, 0, seconds, Undefined)
       ELSE /\ last' = Call("hset", key, 0, seconds, Throw)
            /\ UNCHANGED <<store, hist, pc>>
    /\ UNCHANGED <<singletonVars, now, cached, regVars>>

\* the rest of hset, with an expire only for a key that still holds a hash
hsetExpiry_OwnKindOnly(c) ==
    /\ pc[c].op = "hset.expire"
    /\ IF store[pc[c].key].kind = "hash"
       THEN RedisClient_expiry(pc[c].key, pc[c].sec, "hset")
       ELSE UNCHANGED <<store, hist>>
    /\ pc' = [pc EXCEPT ![c] = Idle]
    /\ last' = Call("hset.expiry", pc[c].key, pc[c].sec, 0, Undefined)
    /\ UNCHANGED <<singletonVars, now, cached, regVars>>

\* the rest of hset: await this.expiry(key, seconds)
hsetExpiry(c) ==
    /\ pc[c].op = "hset.expire"
    /\ RedisClient_expiry(pc[c].key, pc[c].sec, "hset")
    /\ pc' = [pc EXCEPT ![c] = Idle]
    /\ last' = Call("hset.expiry", pc[c].key, pc[c].sec, 0, Undefined)
    /\ UNCHANGED <<singletonVars, now, cached, regVars>>

RedisClient_hget(key, name) == client_hget(store, key, name)

hget(key, name) ==
    /\ instance # Undefined
    /\ AnyIdle
    /\ last' = Call("hget", key, name, 0, RedisClient_hget(key, name))
    /\ UNCHANGED <<singletonVars, storeVars, cached, regVars>>

RedisClient_hgetall(key) == client_hgetall(store, key)

hgetall(key) ==
    /\ instance # Undefined
    /\ AnyIdle
    /\ last' = Call("hgetall", key, 0, 0, RedisClient_hgetall(key))
    /\ UNCHANGED <<singletonVars, storeVars, cached, regVars>>

\* the other variant of the class: hget awaits the command and returns
\* nothing (Promise<void>), unless the command is rejected
unnamed_RedisClient_hget(key, name) ==
    IF client_hget(store, key, name) = Throw THEN Throw ELSE Undefined

unnamed_hget(key, name) ==
    /\ instance # Undefined
    /\ AnyIdle
    /\ last' = Call("hget", key, name, 0, unnamed_RedisClient_hget(key, name))
    /\ UNCHANGED <<singletonVars, storeVars, cached, regVars>>

\* the other variant of the class: hgetall awaits the command and returns
\* nothing (Promise<void>), unless the command is rejected
unnamed_RedisClient_hgetall(key) ==
    IF client_hgetall(store, key) = Throw THEN Throw ELSE Undefined

unnamed_hgetall(key) ==
    /\ instance # Undefined
    /\ AnyIdle
    /\ last' = Call("hgetall", key, 0, 0, unnamed_RedisClient_hgetall(key))
    /\ UNCHANGED <<singletonVars, storeVars, cached, regVars>>

\* hsetnx that writes the field whether the hash has it or not
RedisClient_hsetnx_Overwrite(key, name, value) ==
    /\ store' = client_hset(store, key, <<Prop(name, ToArg(value))>>)
    /\ hist' = Touch(key, "hsetnx", "", Undefined, 0)

RedisClient_hsetnx(key, name, value) ==
    /\ store' = client_hsetnx(store, key, name, ToArg(value))
    /\ hist' = Touch(key, "hsetnx", "", Undefined, 0)

\* the result of HSETNX (1 written, 0 not) is awaited and not returned
hsetnx(key, name, value) ==
    /\ instance # Undefined
    /\ AnyIdle
    /\ IF client_hsetnx_ok(store, key)
       THEN /\ RedisClient_hsetnx(key, name, value)
            /\ last' = Call("hsetnx", key, name, value, Undefined)
       ELSE /\ last' = Call("hsetnx", key, name, value, Throw)
            /\ UNCHANGED <<store, hist>>
    /\ UNCHANGED <<singletonVars, now, pc, cached, regVars>>

\* ------------------------------------------------------------------------
\* RedisClient: sets
\* ------------------------------------------------------------------------
\* the members SADD gets from an array: the text the connection makes of
\* each element
MemberArgs(arr) == { ToArg(arr.kids[j].v) : j \in 1..Len(arr.kids) }

\* sadd that goes on to the expiry whatever seconds is
sadd_ExpireAlways(c, key, arr, seconds) ==
    /\ instance # Undefined
    /\ pc[c] = Idle
    /\ IF client_sadd_ok(store, key, MemberArgs(arr))
       THEN /\ store' = client_sadd(store, key, MemberArgs(arr))
            /\ hist' = Touch(key, "sadd", "", arr, seconds)
            /\ pc' = [pc EXCEPT ![c] = [Idle EXCEPT !.op = "sadd.expire", !.key = key,
                                                    !.sec = seconds]]
            /\ last' = Call("sadd", key, seconds, 0, Undefined)
       ELSE /\ last' = Call("sadd", key, seconds, 0, Throw)
            /\ UNCHANGED <<store, hist, pc>>
    /\ UNCHANGED <<singletonVars, now, cached, regVars>>

\* sadd up to its first await: the SADD command.  With seconds > 0 the
\* caller goes on to expiry once the command has returned.
sadd(c, key, arr, seconds) ==
    /\ instance # Undefined
    /\ pc[c] = Idle
    /\ IF client_sadd_ok(store, key, MemberArgs(arr))
       THEN /\ store' = client_sadd(store, key, MemberArgs(arr))
            /\ hist' = Touch(key, "sadd", "", arr, seconds)
            /\ pc' = [pc EXCEPT ![c] = IF seconds > 0
                                       THEN [Idle EXCEPT !.op = "sadd.expire", !.key = key,
                                                         !.sec = seconds]
                                       ELSE Idle]
            /\ last' = Call("sadd", key, seconds, 0, Undefined)
       ELSE /\ last' = Call("sadd", key, seconds, 0, Throw)
            /\ UNCHANGED <<store, hist, pc>>
    /\ UNCHANGED <<singletonVars, now, cached, regVars>>

\* the rest of sadd: await this.expiry(key, seconds)
saddExpiry(c) ==
    /\ pc[c].op = "sadd.expire"
    /\ RedisClient_expiry(pc[c].key, pc[c].sec, "sadd")
    /\ pc' = [pc EXCEPT ![c] = Idle]
    /\ last' = Call("sadd.expiry", pc[c].key, pc[c].sec, 0, Undefined)
    /\ UNCHANGED <<singletonVars, now, cached, regVars>>

RedisClient_scard(key) == client_scard(store, key)

scard(key) ==
    /\ instance # Undefined
    /\ AnyIdle
    /\ last' = Call("scard", key, 0, 0, RedisClient_scard(key))
    /\ UNCHANGED <<singletonVars, storeVars, cached, regVars>>

\* isSetMember that takes any reply of the store for a yes
RedisClient_isSetMember_AnyReply(key, value) ==
    IF client_sismember(store, key, ToArg(value)) = Throw THEN Throw ELSE Bool(TRUE)

\* the reply of SISMEMBER == 1
RedisClient_isSetMember(key, value) ==
    IF client_sismember(store, key, ToArg(value)) = Throw
    THEN Throw
    ELSE Bool(client_sismember(store, key, ToArg(value)) = Num(1))

isSetMember(key, value) ==
    /\ instance # Undefined
    /\ AnyIdle
    /\ last' = Call("isSetMember", key, value, 0, RedisClient_isSetMember(key, value))
    /\ UNCHANGED <<singletonVars, storeVars, cached, regVars>>

RedisClient_llen(key) == client_llen(store, key)

llen(key) ==
    /\ instance # Undefined
    /\ AnyIdle
    /\ last' = Call("llen", key, 0, 0, RedisClient_llen(key))
    /\ UNCHANGED <<singletonVars, storeVars, cached, regVars>>

\* the other variant of the class: llen awaits the command and returns
\* nothing (Promise<void>), unless the command is rejected
unnamed_RedisClient_llen(key) ==
    IF client_llen(store, key) = Throw THEN Throw ELSE Undefined

unnamed_llen(key) ==
    /\ instance # Undefined
    /\ AnyIdle
    /\ last' = Call("llen", key, 0, 0, unnamed_RedisClient_llen(key))
    /\ UNCHANGED <<singletonVars, storeVars, cached, regVars>>

RedisClient_lpop(key) ==
    /\ store' = client_lpop(store, key)
    /\ hist' = Touch(key, "lpop", "", Undefined, 0)

lpop(key) ==
    /\ instance # Undefined
    /\ AnyIdle
    /\ RedisClient_lpop(key)
    /\ last' = Call("lpop", key, 0, 0, client_lpop_reply(store, key))
    /\ UNCHANGED <<singletonVars, now, pc, cached, regVars>>

\* ------------------------------------------------------------------------
\* Failures: a command the connection rejects, and the end of the process
\* ------------------------------------------------------------------------
WriteOps == {"set", "hset", "sadd", "rpush"}
ExpireOps == {"hset.expire", "sadd.expire", "expire"}

\* the method whose second command a caller has yet to issue
Pending(c) ==
    CASE pc[c].op = "hset.expire" -> "hset"
      [] pc[c].op = "sadd.expire" -> "sadd"
      [] pc[c].op = "expire" -> "rpush"
      [] OTHER -> ""

\* the first command of a write method is rejected (the connection is lost,
\* the command times out): the await throws, no method catches it, and the
\* call ends there
rejected(c, op, key) ==
    /\ instance # Undefined
    /\ pc[c] = Idle
    /\ last' = Call(op, key, 0, 0, Throw)
    /\ UNCHANGED <<singletonVars, storeVars, cached, regVars>>

\* the expire command of hset, sadd or rpush is rejected: the call ends with
\* the data written and no expiry
expiryRejected(c) ==
    /\ pc[c].op \in ExpireOps
    /\ pc' = [pc EXCEPT ![c] = Idle]
    /\ last' = Call(Pending(c) \o ".expiry", pc[c].key, pc[c].sec, 0, Throw)
    /\ UNCHANGED <<singletonVars, store, now, hist, cached, regVars>>

\* the process ends: the calls under way are never resumed, the objects of
\* the process are gone, and the server keeps what it was sent
crash ==
    /\ instance # Undefined
    /\ instance' = Undefined
    /\ constructed' = 0
    /\ initCalls' = <<>>
    /\ pc' = [c \in Callers |-> Idle]
    /\ cached' = [e \in CacheIds |-> [made |-> FALSE, redisClient |-> Undefined, ttl |-> 0]]
    /\ manager' = FALSE
    /\ map' = [ctor \in Kinds |-> Undefined]
    /\ last' = Call("crash", <<>>, 0, 0, Undefined)
    /\ UNCHANGED <<store, now, hist, regLog>>

\* ------------------------------------------------------------------------
\* RedisClient: calls of set under way at the same time
\* ------------------------------------------------------------------------
\* set up to its await: the SET command is handed to the connection
setIssue(c, key, value, seconds) ==
    /\ instance # Undefined
    /\ pc[c] = Idle
    /\ pc' = [pc EXCEPT ![c] = [op |-> "set", key |-> key, sec |-> seconds, val |-> value]]
    /\ last' = Call("set.issue", key, seconds, 0, Undefined)
    /\ UNCHANGED <<singletonVars, store, now, hist, cached, regVars>>

\* the store takes the SET of one caller only when the key is absent
setSettle_IfAbsent(c) ==
    /\ pc[c].op = "set"
    /\ IF store[pc[c].key].kind = "none"
       THEN RedisClient_set(pc[c].key, pc[c].val, pc[c].sec, c)
       ELSE /\ store' = store
            /\ hist' = Touch(pc[c].key, "set", c, pc[c].val, pc[c].sec)
    /\ pc' = [pc EXCEPT ![c] = Idle]
    /\ last' = Call("set", pc[c].key, pc[c].sec, 0, Undefined)
    /\ UNCHANGED <<singletonVars, now, cached, regVars>>

\* the store carries out the SET of one caller, in whatever order the
\* commands under way reach it, and the caller's await returns
setSettle(c) ==
    /\ pc[c].op = "set"
    /\ RedisClient_set(pc[c].key, pc[c].val, pc[c].sec, c)
    /\ pc' = [pc EXCEPT ![c] = Idle]
    /\ last' = Call("set", pc[c].key, pc[c].sec, 0, Undefined)
    /\ UNCHANGED <<singletonVars, now, cached, regVars>>

\* ------------------------------------------------------------------------
\* AbstractCachedData
\* ------------------------------------------------------------------------
CachedData(e) == Instance("AbstractCachedData", e)

\* new of a subclass: the field initialiser reads RedisClient.getInstance()
\* and the constructor keeps ttl
AbstractCachedData(e, ttl) ==
    /\ ~cached[e].made
    /\ cached' = [cached EXCEPT ![e] = [made |-> TRUE, redisClient |-> instance, ttl |-> ttl]]
    /\ last' = Call("new", <<>>, e, ttl, CachedData(e))
    /\ UNCHANGED <<singletonVars, storeVars, regVars>>

\* load through get instead of getObject
load_Unparsed(e, key) ==
    /\ cached[e].made
    /\ AnyIdle
    /\ last' = Call("load", getKey(key), e, 0,
                    IF cached[e].redisClient = Undefined THEN Throw
                    ELSE RedisClient_get(getKey(key)))
    /\ UNCHANGED <<singletonVars, storeVars, cached, regVars>>

\* a call on a redisClient that is undefined throws a TypeError
load(e, key) ==
    /\ cached[e].made
    /\ AnyIdle
    /\ last' = Call("load", getKey(key), e, 0,
                    IF cached[e].redisClient = Undefined THEN Throw
                    ELSE RedisClient_getObject(getKey(key)))
    /\ UNCHANGED <<singletonVars, storeVars, cached, regVars>>

\* clean that looks the singleton up at each call
clean_LateBound(e, key) ==
    /\ cached[e].made
    /\ AnyIdle
    /\ IF instance = Undefined
       THEN /\ last' = Call("clean", getKey(key), e, 0, Throw)
            /\ UNCHANGED <<store, hist>>
       ELSE /\ RedisClient_del(getKey(key), "clean")
            /\ last' = Call("clean", getKey(key), e, 0, Undefined)
    /\ UNCHANGED <<singletonVars, now, pc, cached, regVars>>

clean(e, key) ==
    /\ cached[e].made
    /\ AnyIdle
    /\ IF cached[e].redisClient = Undefined
       THEN /\ last' = Call("clean", getKey(key), e, 0, Throw)
            /\ UNCHANGED <<store, hist>>
       ELSE /\ RedisClient_del(getKey(key), "clean")
            /\ last' = Call("clean", getKey(key), e, 0, Undefined)
    /\ UNCHANGED <<singletonVars, now, pc, cached, regVars>>

\* save that asks for no expiry
save_NoTtl(e, data) ==
    /\ cached[e].made
    /\ AnyIdle
    /\ IF cached[e].redisClient = Undefined
       THEN /\ last' = Call("save", getKey(data), e, 0, Throw)
            /\ UNCHANGED <<store, hist>>
       ELSE /\ RedisClient_set(getKey(data), data, 0, "save")
            /\ last' = Call("save", getKey(data), e, 0, Undefined)
    /\ UNCHANGED <<singletonVars, now, pc, cached, regVars>>

save(e, data) ==
    /\ cached[e].made
    /\ AnyIdle
    /\ IF cached[e].redisClient = Undefined
       THEN /\ last' = Call("save", getKey(data), e, 0, Throw)
            /\ UNCHANGED <<store, hist>>
       ELSE /\ RedisClient_set(getKey(data), data, cached[e].ttl, "save")
            /\ last' = Call("save", getKey(data), e, 0, Undefined)
    /\ UNCHANGED <<singletonVars, now, pc, cached, regVars>>

\* ------------------------------------------------------------------------
\* CachedDataManager
\* ------------------------------------------------------------------------
CachedDataManager_getInstance ==
    /\ manager' = TRUE
    /\ last' = Call("CachedDataManager.getInstance", <<>>, 0, 0, Instance("CachedDataManager", 1))
    /\ UNCHANGED <<singletonVars, storeVars, cached, map, regLog>>

\* register that keeps an earlier registration
register_IfAbsent(ctor, e) ==
    /\ manager
    /\ cached[e].made
    /\ Len(regLog) < MaxRegs
    /\ map' = IF map[ctor] = Undefined THEN [map EXCEPT ![ctor] = CachedData(e)] ELSE map
    /\ regLog' = Append(regLog, [ctor |-> ctor, instance |-> CachedData(e)])
    /\ last' = Call("register", <<ctor>>, e, 0, Undefined)
    /\ UNCHANGED <<singletonVars, storeVars, cached, manager>>

register(ctor, e) ==
    /\ manager
    /\ cached[e].made
    /\ Len(regLog) < MaxRegs
    /\ map' = [map EXCEPT ![ctor] = CachedData(e)]
    /\ regLog' = Append(regLog, [ctor |-> ctor, instance |-> CachedData(e)])
    /\ last' = Call("register", <<ctor>>, e, 0, Undefined)
    /\ UNCHANGED <<singletonVars, storeVars, cached, manager>>

CachedDataManager_get(ctor) ==
    /\ manager
    /\ last' = Call("CachedDataManager.get", <<ctor>>, 0, 0, map[ctor])
    /\ UNCHANGED <<singletonVars, storeVars, cached, regVars>>

\* ------------------------------------------------------------------------
\* Specifications
\* ------------------------------------------------------------------------
\* the facade, over the mock
Next ==
    \/ init(Null)
    \/ \E key \in FacadeKeys, value \in SetValues, seconds \in 0..MaxTtl : set(key, value, seconds)
    \/ \E key \in FacadeKeys : get(key)
    \/ \E key \in FacadeKeys : getObject(key)
    \/ \E key \in FacadeKeys : del(key)
    \/ \E key \in FacadeKeys, seconds \in 0..MaxTtl : expiry(key, seconds)
    \/ \E c \in Callers, key \in FacadeKeys, data \in PushValues, seconds \in 0..MaxTtl :
          rpush(c, key, data, seconds)
    \/ \E c \in Callers : rpushExpiry(c)
    \/ \E key \in FacadeKeys, r \in Ranges : lrange(key, r[1], r[2])
    \/ \E key \in FacadeKeys, r \in Ranges : lrangeObject(key, r[1], r[2])
    \/ Tick

Spec == Init /\ [][Next]_vars

\* cache entries over the facade
NextCache ==
    \/ init(Null)
    \/ \E e \in Caches, ttl \in 0..MaxTtl : AbstractCachedData(e, ttl)
    \/ \E e \in Caches, data \in Entities : save(e, data)
    \/ \E e \in Caches, key \in PartialKeys : load(e, key)
    \/ \E e \in Caches, key \in PartialKeys : clean(e, key)
    \/ Tick

SpecCache == Init /\ [][NextCache]_vars

\* the singleton and the objects that bind it
NextSingleton ==
    \/ \E conf \in Confs : init(conf)
    \/ getInstance
    \/ \E e \in CacheIds, ttl \in 0..MaxTtl : AbstractCachedData(e, ttl)

SpecSingleton == Init /\ [][NextSingleton]_vars

\* the registry of cache entries
NextRegistry ==
    \/ \E e \in CacheIds, ttl \in 0..MaxTtl : AbstractCachedData(e, ttl)
    \/ CachedDataManager_getInstance
    \/ \E ctor \in Kinds, e \in CacheIds : register(ctor, e)
    \/ \E ctor \in Kinds : CachedDataManager_get(ctor)

SpecRegistry == Init /\ [][NextRegistry]_vars

\* the hash operations of both variants of the facade, over the mock, with
\* one caller
NextHash ==
    \/ init(Null)
    \/ \E key \in FacadeKeys, data \in HashMaps, seconds \in 0..MaxTtl :
          hset("A", key, data, seconds)
    \/ hsetExpiry("A")
    \/ \E key \in FacadeKeys, name \in Fields : hget(key, name)
    \/ \E key \in FacadeKeys : hgetall(key)
    \/ \E key \in FacadeKeys, name \in Fields : unnamed_hget(key, name)
    \/ \E key \in FacadeKeys : unnamed_hgetall(key)
    \/ \E key \in FacadeKeys, name \in Fields, value \in FieldValues : hsetnx(key, name, value)
    \/ \E key \in FacadeKeys : del(key)
    \/ Tick

SpecHash == Init /\ [][NextHash]_vars

\* the set operations of the facade, over the mock, with one caller
NextSet ==
    \/ init(Null)
    \/ \E key \in FacadeKeys, arr \in MemberArrays, seconds \in 0..MaxTtl :
          sadd("A", key, arr, seconds)
    \/ saddExpiry("A")
    \/ \E key \in FacadeKeys : scard(key)
    \/ \E key \in FacadeKeys, value \in Probes : isSetMember(key, value)
    \/ \E key \in FacadeKeys : del(key)
    \/ Tick

SpecSet == Init /\ [][NextSet]_vars

\* the list operations of both variants of the facade, over the mock, with
\* one caller
NextList ==
    \/ init(Null)
    \/ \E key \in FacadeKeys, data \in PushValues, seconds \in 0..MaxTtl :
          rpush("A", key, data, seconds)
    \/ rpushExpiry("A")
    \/ \E key \in FacadeKeys : llen(key)
    \/ \E key \in FacadeKeys : unnamed_llen(key)
    \/ \E key \in FacadeKeys : lpop(key)
    \/ \E key \in FacadeKeys : del(key)
    \/ Tick

SpecList == Init /\ [][NextList]_vars

\* the writes of the facade over a connection to a server, with commands
\* that fail and a process that ends at any point; each process calls init
\* once, as it starts
NextFault ==
    \/ \E conf \in Confs \ {Null} : instance = Undefined /\ init(conf)
    \/ \E key \in FacadeKeys, value \in FaultValues, seconds \in 0..MaxTtl :
          set(key, value, seconds)
    \/ \E c \in Callers, key \in FacadeKeys, data \in FaultMaps, seconds \in 0..MaxTtl :
          hset(c, key, data, seconds)
    \/ \E c \in Callers : hsetExpiry(c)
    \/ \E c \in Callers, key \in FacadeKeys, arr \in FaultMembers, seconds \in 0..MaxTtl :
          sadd(c, key, arr, seconds)
    \/ \E c \in Callers : saddExpiry(c)
    \/ \E c \in Callers, key \in FacadeKeys, data \in FaultValues, seconds \in 0..MaxTtl :
          rpush(c, key, data, seconds)
    \/ \E c \in Callers : rpushExpiry(c)
    \/ \E c \in Callers, op \in WriteOps, key \in FacadeKeys : rejected(c, op, key)
    \/ \E c \in Callers : expiryRejected(c)
    \/ \E key \in FacadeKeys : del(key)
    \/ crash
    \/ Tick

SpecFault == Init /\ [][NextFault]_vars

\* two callers whose calls of set are under way at the same time
NextRace ==
    \/ init(Null)
    \/ \E c \in Callers, key \in FacadeKeys, value \in SetValues, seconds \in 0..MaxTtl :
          setIssue(c, key, value, seconds)
    \/ \E c \in Callers : setSettle(c)
    \/ \E key \in FacadeKeys : get(key)
    \/ Tick

SpecRace == Init /\ [][NextRace]_vars

\* two callers whose writes to hashes, sets and lists, with and without an
\* expiry, and whose deletions come in any order; init is called once
NextExpire ==
    \/ instance = Undefined /\ init(Null)
    \/ \E c \in Callers, key \in FacadeKeys, data \in FaultMaps, seconds \in Ttls :
          hset(c, key, data, seconds)
    \/ \E c \in Callers, key \in FacadeKeys, data \in FaultMaps, seconds \in NoTtls :
          hsetOptional(c, key, data, seconds)
    \/ \E c \in Callers : hsetExpiry(c)
    \/ \E c \in Callers, key \in FacadeKeys, arr \in FaultMembers, seconds \in Ttls :
          sadd(c, key, arr, seconds)
    \/ \E c \in Callers : saddExpiry(c)
    \/ \E c \in Callers, key \in FacadeKeys, data \in FaultValues, seconds \in Ttls :
          rpush(c, key, data, seconds)
    \/ \E c \in Callers : rpushExpiry(c)
    \/ \E key \in FacadeKeys : del(key)
    \/ Tick

SpecExpire == Init /\ [][NextExpire]_vars

\* ------------------------------------------------------------------------
\* Properties
\* ------------------------------------------------------------------------
\* the facade call that last wrote the key of the latest call
Written == hist[last.key]

\* no expiry asked for by that write has elapsed
Unexpired == Written.sec = 0 \/ now < Written.at + Written.sec

Structured(v) == v.t \in {"array", "object"}

\* C1 as stated: whenever getObject(k) is called while the last write of k
\* is a set(k, v, t) of a structured value v whose expiry has not elapsed, it
\* returns v.
C1_AnyStructuredRoundTrip ==
    (last.op = "getObject" /\ Written.op = "set" /\ Structured(Written.val) /\ Unexpired)
        => last.ret = Written.val

\* C1 amended: the same, for a structured value v that is JSON-representable
\* (built from null, booleans, finite numbers, strings, arrays and objects
\* without undefined members).
C1_JsonRoundTrip ==
    (last.op = "getObject" /\ Written.op = "set" /\ Structured(Written.val)
        /\ IsJson(Written.val) /\ Unexpired)
        => last.ret = Written.val

C1_Witness ==
    /\ last.op = "getObject" /\ Written.op = "set" /\ Written.sec > 0 /\ Unexpired
    /\ Structured(Written.val) /\ IsJson(Written.val)
    /\ last.ret = Written.val

Scalar(v) == v.t \in {"string", "number", "boolean"}

\* C2 as stated: whenever get(k) is called while the last write of k is a
\* set(k, v) of a string, number or boolean v, it returns v itself, of the
\* same type.
C2_ScalarUnchanged ==
    (last.op = "get" /\ Written.op = "set" /\ Written.sec = 0 /\ Scalar(Written.val))
        => last.ret = Written.val

\* C2 amended: get(k) then returns a string: v itself when v is a string,
\* and when v is a number or a boolean the text of v with no quotes added,
\* which reads back as v.
C2_ScalarAsText ==
    (last.op = "get" /\ Written.op = "set" /\ Written.sec = 0 /\ Scalar(Written.val))
        => /\ last.ret.t = "string"
           /\ Written.val.t = "string" => last.ret = Written.val
           /\ Written.val.t # "string" =>
                 /\ JSONParse(last.ret.s).ok
                 /\ JSONParse(last.ret.s).v = Written.val

C2_Witness ==
    /\ last.op = "get" /\ Written.op = "set" /\ Written.sec = 0
    /\ Written.val = Num(1)
    /\ last.ret = Str(<<"1">>)

\* the elements lrange fetches for the latest call
Fetched == RedisClient_lrange(last.key, last.a, last.b).kids

Parses(e) == JSONParse(e.v.s).ok

\* C3 as stated: lrangeObject returns one result per fetched element, in
\* order: the parsed value of an element that parses, the raw text of one
\* that does not.
C3_PassThrough ==
    (last.op = "lrangeObject" /\ last.ret # Throw)
        => /\ Len(last.ret.kids) = Len(Fetched)
           /\ \A j \in 1..Len(Fetched) :
                 last.ret.kids[j].v =
                    IF Parses(Fetched[j]) THEN JSONParse(Fetched[j].v.s).v ELSE Fetched[j].v

\* C3 amended: lrangeObject returns, in list order, the parsed value of each
\* fetched element that parses as JSON; an element that fails to parse is
\* left out, so the result can be shorter than that of lrange.  After
\* rpush(k, "a"); rpush(k, {n:1}), lrangeObject(k, 0, -1) returns [{n:1}].
C3_DropUnparsed ==
    (last.op = "lrangeObject" /\ last.ret # Throw)
        => /\ LET kept == SelectSeq(Fetched, Parses)
              IN last.ret = Arr([j \in 1..Len(kept) |-> Elem(JSONParse(kept[j].v.s).v)])
           /\ (store[last.key].list = <<<<"a">>, <<"{", "\"", "n", "\"", ":", "1", "}">>>>
                  /\ last.a = 0 /\ last.b = -1)
                 => last.ret = Arr(<<Elem(Obj(<<Prop(<<"n">>, Num(1))>>))>>)

C3_Witness ==
    /\ last.op = "lrangeObject" /\ last.a = 0 /\ last.b = -1
    /\ hist[last.key].op = "rpush" /\ hist[last.key].prev = "rpush"
    /\ store[last.key].list = <<<<"a">>, <<"{", "\"", "n", "\"", ":", "1", "}">>>>
    /\ Len(last.ret.kids) = 1
    /\ Len(Fetched) = 2

\* C4: a getObject(k) step changes no key of the store, and returns null,
\* not an exception, both when k holds text that is not JSON and when k is
\* absent.
C4_DecodeFailureIsNull ==
    [][\A k \in Keys :
          getObject(k) =>
             /\ store' = store
             /\ (store[k].kind = "string" /\ ~JSONParse(store[k].str).ok) => last'.ret = Null
             /\ store[k].kind = "none" => last'.ret = Null]_vars

C4_Witness ==
    /\ last.op = "getObject"
    /\ store[last.key].kind = "string"
    /\ ~JSONParse(store[last.key].str).ok
    /\ last.ret = Null

\* C5: however many init calls are made, with whatever configurations, the
\* constructor runs once, for the first call; the instance is the one made
\* from the first call's configuration, and getInstance returns it.
C5_InitOnce ==
    /\ constructed <= 1
    /\ initCalls # <<>> =>
          /\ constructed = 1
          /\ instance = RedisClient(initCalls[1], 1)
          /\ last.op = "getInstance" => last.ret = RedisClient(initCalls[1], 1)

C5_Witness ==
    /\ Len(initCalls) >= 2
    /\ initCalls[1] # initCalls[2]
    /\ last.op = "getInstance"
    /\ last.ret = RedisClient(initCalls[1], 1)

\* C6: getInstance called before any init throws.
C6_ThrowsBeforeInit ==
    (last.op = "getInstance" /\ initCalls = <<>>) => last.ret = Throw

RECURSIVE Registered(_, _)
Registered(log, ctor) ==
    IF log = <<>> THEN Undefined
    ELSE IF log[Len(log)].ctor = ctor THEN log[Len(log)].instance
    ELSE Registered(SubSeq(log, 1, Len(log) - 1), ctor)

\* C8: get(Kind) returns the instance of the latest register call for Kind,
\* whatever was registered before it or under other kinds, and the absent
\* indicator when there was none.
C8_LastRegistrationWins ==
    last.op = "CachedDataManager.get" => last.ret = Registered(regLog, last.key[1])

C8_Witness ==
    /\ last.op = "CachedDataManager.get"
    /\ Len(regLog) = 3
    /\ regLog[1].ctor = last.key[1] /\ regLog[2].ctor = last.key[1]
    /\ regLog[1].instance # regLog[2].instance
    /\ regLog[3].ctor # last.key[1]
    /\ last.ret = regLog[2].instance

\* C9: whenever get(k) is called while the last write of k is a del(k) that
\* followed a set(k, v), it returns null.
C9_DeletedIsAbsent ==
    (last.op = "get" /\ Written.op = "del" /\ Written.prev = "set") => last.ret = Null

C9_Witness ==
    /\ last.op = "get" /\ Written.op = "del" /\ Written.prev = "set" /\ Written.existed
    /\ last.ret = Null

\* C10: whenever get(k) is called more than t seconds after an expiry(k, t),
\* t > 0, that found k existing and that no write or expiry of k followed,
\* it returns null.
C10_ExpiredIsAbsent ==
    (last.op = "get" /\ Written.op = "expiry" /\ Written.existed /\ Written.sec > 0
        /\ now > Written.at + Written.sec)
        => last.ret = Null

C10_Witness ==
    /\ last.op = "get" /\ Written.op = "expiry" /\ Written.by = "" /\ Written.existed
    /\ Written.prev = "set"
    /\ Written.sec > 0 /\ now > Written.at + Written.sec
    /\ last.ret = Null

\* the value of field name in the data object m, as a JS value or as the
\* text the store keeps of it
FieldValuesOf(m, name) ==
    UNION { {m.kids[j].v, Str(ToArg(m.kids[j].v))} :
              j \in {i \in 1..Len(m.kids) : m.kids[i].k = name} }

HasProp(m, name) == \E j \in 1..Len(m.kids) : m.kids[j].k = name

\* C11: once hset(k, m) has written to an absent key k, hgetall(k) returns
\* an object with exactly the fields of m and their values, and hget(k, f)
\* returns the value of field f, for every f in m.
C11_HashReadBack ==
    (last.op \in {"hget", "hgetall"} /\ Written.op = "hset" /\ ~Written.existed) =>
       IF last.op = "hgetall"
       THEN /\ last.ret.t = "object"
            /\ \A name \in Fields :
                  /\ HasProp(last.ret, name) <=> HasProp(Written.val, name)
                  /\ \A j \in 1..Len(last.ret.kids) :
                        last.ret.kids[j].k = name =>
                           last.ret.kids[j].v \in FieldValuesOf(Written.val, name)
       ELSE HasProp(Written.val, last.a) => last.ret \in FieldValuesOf(Written.val, last.a)

\* C12: hsetnx writes the field only when the hash does not have it; a field
\* that is there keeps its value, no other field changes, and the caller is
\* told nothing in either case.
C12_WriteOnlyIfAbsent ==
    [][(last'.op = "hsetnx" /\ last'.ret # Throw) =>
          /\ last'.ret = Undefined
          /\ \A name \in Fields \ {last'.a} :
                client_hget(store', last'.key, name) = client_hget(store, last'.key, name)
          /\ IF client_hget(store, last'.key, last'.a) # Null
             THEN client_hget(store', last'.key, last'.a) = client_hget(store, last'.key, last'.a)
             ELSE client_hget(store', last'.key, last'.a) = Str(ToArg(last'.b))
          /\ store'[last'.key].exp = store[last'.key].exp]_vars

\* an hsetnx of a field that held another value, and holds it still
C12_Witness ==
    /\ last.op = "hsetnx"
    /\ last.ret = Undefined
    /\ client_hget(store, last.key, last.a) \notin {Null, Str(ToArg(last.b))}

\* the members the store holds once the array written last has been added
\* to an absent key: two elements with the same text are one member
Added == MemberArgs(Written.val)

\* C13: once sadd(k, members, 0) has written to an absent key k, scard(k)
\* returns the number of distinct members added, and isSetMember(k, x)
\* returns true for an x that was added and false for one that was not.
C13_SetReadBack ==
    (/\ last.op \in {"scard", "isSetMember"}
     /\ Written.op = "sadd" /\ ~Written.existed /\ Written.sec = 0) =>
       IF last.op = "scard"
       THEN last.ret = Num(Cardinality(Added))
       ELSE last.ret = Bool(ToArg(last.a) \in Added)

\* a count of two after the two members of ["x", "y"] were added to an
\* absent key
C13_Witness ==
    /\ last.op = "scard"
    /\ Written.op = "sadd" /\ ~Written.existed /\ Written.sec = 0
    /\ Len(Written.val.kids) = 2
    /\ last.ret = Num(2)

\* C14: lists are first in, first out.  The list of k is the elements
\* pushed and not yet popped, earliest first: rpush adds at its tail, lpop
\* removes its head and returns it, and llen returns its length to the
\* caller, so that llen after an lpop is one less than before.
C14_Fifo ==
    [][/\ (last'.op = "rpush" /\ last'.ret # Throw) =>
             /\ Len(store'[last'.key].list) = Len(store[last'.key].list) + 1
             /\ SubSeq(store'[last'.key].list, 1, Len(store[last'.key].list))
                   = store[last'.key].list
       /\ (last'.op = "lpop" /\ store[last'.key].kind = "list") =>
             /\ last'.ret = Str(Head(store[last'.key].list))
             /\ store'[last'.key].list = Tail(store[last'.key].list)
             /\ client_llen(store', last'.key) = Num(Len(store[last'.key].list) - 1)
       /\ (last'.op = "llen" /\ last'.ret # Throw) =>
             last'.ret = Num(Len(store[last'.key].list))]_vars

\* C15: set(k, v, t) writes the value and its expiry with one command.
\* Whatever the other callers do, wherever a command fails or the process
\* ends, as long as the set is the last write to k the key holds the text
\* of v with the expiry t seconds after the set (none for t = 0), or is
\* gone because that time has come.
C15_SetIsAtomic ==
    \A key \in FacadeKeys :
       hist[key].op = "set" =>
          IF hist[key].sec > 0 /\ now >= hist[key].at + hist[key].sec
          THEN store[key].kind = "none"
          ELSE /\ store[key].kind = "string"
               /\ store[key].str = SetText(hist[key].val)
               /\ store[key].exp = IF hist[key].sec = 0 THEN 0
                                   ELSE hist[key].at + hist[key].sec

\* the process has ended after a set with an expiry, and the key has both
\* the value and the expiry
C15_Witness ==
    /\ last.op = "crash"
    /\ hist[K].op = "set" /\ hist[K].sec > 0
    /\ store[K].kind = "string"
    /\ store[K].exp = hist[K].at + hist[K].sec

\* the write method an expire step belongs to
ExpiryOf == [w \in {"hset", "sadd", "rpush"} |-> w \o ".expiry"]

\* C16: hset, sadd and rpush with a ttl above zero are two commands, the
\* write and then the expire.  The expire is never issued before the write:
\* a caller comes to owe an expire only by a write of its own that the store
\* has accepted, with a ttl above zero, and the expire is issued by a
\* caller that owes it, on the key it wrote, with that ttl.
C16_WriteThenExpire ==
    [][/\ \A c \in Callers :
             (pc'[c].op \in ExpireOps /\ pc'[c] # pc[c]) =>
                /\ pc[c] = Idle
                /\ last'.op \in {"hset", "sadd", "rpush"} /\ last'.ret = Undefined
                /\ hist'[last'.key].op = last'.op /\ hist'[last'.key].at = now
                /\ store'[last'.key].kind # "none"
                /\ pc'[c].key = last'.key /\ pc'[c].sec = last'.a /\ last'.a > 0
       /\ \A w \in {"hset", "sadd", "rpush"} :
             (last'.op = ExpiryOf[w] /\ last'.ret # Throw) =>
                /\ \E c \in Callers :
                      /\ Pending(c) = w /\ pc'[c] = Idle
                      /\ pc[c].key = last'.key /\ pc[c].sec = last'.a
                /\ store' = client_expire(store, last'.key, last'.a, now)]_vars

\* between the two commands the process has ended (or the expire was
\* rejected): the key holds the data, with no expiry and nobody left to
\* set one
C16_Witness ==
    /\ last.op = "crash" \/ last.ret = Throw
    /\ \A c \in Callers : pc[c] = Idle
    /\ hist[K].op \in {"hset", "sadd", "rpush"} /\ hist[K].sec > 0
    /\ store[K].kind # "none" /\ store[K].exp = 0

\* C17: no retry and no recovery.  A call whose command is rejected ends
\* with that rejection: it changes nothing in the store and leaves its
\* caller owing no command, so a failed write is not followed by an expire.
\* Each command is issued once: a caller that issues the expire it owes
\* owes nothing afterwards.
C17_NoRetry ==
    [][/\ last'.ret = Throw =>
             /\ store' = store
             /\ \A c \in Callers : pc'[c] # pc[c] => pc'[c] = Idle
             /\ \A c \in Callers : pc'[c].op \in ExpireOps => pc'[c] = pc[c]
       /\ last'.op \in {"hset.expiry", "sadd.expiry", "rpush.expiry"} =>
             /\ \E c \in Callers : pc[c].op \in ExpireOps /\ pc'[c] = Idle
             /\ \A c \in Callers : pc'[c] \in {pc[c], Idle}]_vars

\* a write was rejected and its caller owes no expire
C17_Witness ==
    /\ last.op \in {"hset", "sadd", "rpush"}
    /\ last.ret = Throw
    /\ \A c \in Callers : pc[c] = Idle

\* C18: of two calls of set on one key that are under way together, the one
\* the store carries out last wins.  Once both have returned (no caller is
\* in a call), get returns the whole text of the value of that call, one of
\* the two values written, and never a mixture or nothing, until the expiry
\* it asked for has come.
C18_LastWriteWins ==
    (/\ last.op = "get"
     /\ \A c \in Callers : pc[c] = Idle
     /\ Written.op = "set" /\ Unexpired) =>
       /\ Written.val \in SetValues
       /\ last.ret = Str(SetText(Written.val))

\* both callers' sets have been carried out, B's and then A's, and get
\* returns A's value
C18_Witness ==
    /\ last.op = "get"
    /\ \A c \in Callers : pc[c] = Idle
    /\ Written.op = "set" /\ Written.prev = "set" /\ Written.by = "A"
    /\ Written.sec = 0
    /\ last.ret = Str(SetText(Written.val))

\* C19: every save asks for the ttl the entry was made with.  With a ttl
\* above zero, a load made once ttl seconds have passed since the last save
\* of the key returns null; with a ttl of zero the key has no expiry and
\* load goes on returning the saved entity, until a clean or another save.
C19_SaveAppliesTtl ==
    /\ (last.op = "save" /\ last.ret # Throw) =>
          /\ Written.op = "set" /\ Written.sec = cached[last.a].ttl
          /\ store[last.key].exp = IF cached[last.a].ttl = 0 THEN 0
                                   ELSE now + cached[last.a].ttl
    /\ (last.op = "load" /\ last.ret # Throw /\ Written.op = "set" /\ Written.by = "save") =>
          /\ Written.sec = cached[last.a].ttl
          /\ (Written.sec > 0 /\ now >= Written.at + Written.sec) => last.ret = Null
          /\ Written.sec = 0 =>
                /\ last.ret # Null
                /\ IsJson(Written.val) => last.ret = Written.val

\* a load after the ttl of the last save has passed, which returns null
C19_Witness ==
    /\ last.op = "load"
    /\ Written.op = "set" /\ Written.by = "save"
    /\ cached[last.a].ttl > 0
    /\ now >= Written.at + cached[last.a].ttl
    /\ last.ret = Null

C22_ExpireHitsCurrentData ==
    [][(last'.op \in {"hset.expiry", "sadd.expiry", "rpush.expiry"}
        /\ store[last'.key].kind # "none") =>
          /\ last'.a > 0
          /\ store'[last'.key] = [store[last'.key] EXCEPT !.exp = now + last'.a]]_vars

\* caller A pushed to a list with an expiry, the key was deleted, caller B
\* wrote a hash to it with no expiry (B owes none and has issued none), and
\* A's expire has run: the hash carries the expiry of A's rpush
C22_Witness ==
    /\ last.op = "rpush.expiry"
    /\ hist[K].op = "expiry" /\ hist[K].by = "rpush" /\ hist[K].prev = "hset"
    /\ \A c \in Callers : pc[c] = Idle
    /\ store[K].kind = "hash"
    /\ store[K].exp = now + last.a

====
